---- MODULE Spec2Model ----
(***************************************************************************)
(* A model of pip's `search` command (src/pip/commands/search.py):         *)
(*   transform_hits   - folds version-level hits into package records      *)
(*   highest_version  - max(versions, key=parse_version)                   *)
(*   print_results    - renders the records, annotating installed ones     *)
(*   SearchCommand    - run / search / search_from_files                   *)
(*                                                                         *)
(* Python values are modelled as follows.                                  *)
(*   str        a sequence of one-character strings, <<"f","o","o">>;      *)
(*              a code point outside ASCII is the single element "U+00E9". *)
(*   None / v   an optional value is <<>> (None, or an absent key) or <<v>>*)
(*   dict       `packages` is the sequence of its values in insertion      *)
(*              order, which is the iteration order of a dict (Python 3.7  *)
(*              and later).                                                *)
(***************************************************************************)
EXTENDS Integers, Sequences, FiniteSets, TLC

(***************************************************************************)
(* Bounds of the model.                                                    *)
(***************************************************************************)
MaxHits == 3

MaxRecords == 2

MaxReqs == 2

(***************************************************************************)
(* Optional values.                                                        *)
(***************************************************************************)
None == <<>>

Some(v) == <<v>>

IsNone(o) == o = <<>>

Val(o) == o[1]

(***************************************************************************)
(* Strings.                                                                *)
(***************************************************************************)
Digit == {"0", "1", "2", "3", "4", "5", "6", "7", "8", "9"}

DigitVal(c) ==
    CASE c = "0" -> 0 [] c = "1" -> 1 [] c = "2" -> 2 [] c = "3" -> 3
      [] c = "4" -> 4 [] c = "5" -> 5 [] c = "6" -> 6 [] c = "7" -> 7
      [] c = "8" -> 8 [] c = "9" -> 9

NonAscii == {"U+00E9"}

Spaces(n) == [i \in 1..n |-> " "]

RECURSIVE Join(_, _)
Join(sep, parts) ==
    IF parts = <<>> THEN <<>>
    ELSE IF Len(parts) = 1 THEN parts[1]
    ELSE parts[1] \o sep \o Join(sep, Tail(parts))

\* '%-*s' % (width, s): s left-justified in a field of at least `width`.
LJust(s, width) == IF Len(s) >= width THEN s ELSE s \o Spaces(width - Len(s))

(***************************************************************************)
(* parse_version: the ordering key of a version string.  Strings of the    *)
(* form N(.N)*[(a|b|c|rc)[N]] are versions (epoch 0, the release with its  *)
(* trailing zeros stripped, the pre-release or "no pre-release", which     *)
(* orders above every pre-release); every other string is a legacy version *)
(* (epoch -1), below every version.                                        *)
(***************************************************************************)
RECURSIVE ScanDigits(_, _, _)
ScanDigits(s, i, acc) ==
    IF i <= Len(s) /\ s[i] \in Digit
    THEN ScanDigits(s, i + 1, acc * 10 + DigitVal(s[i]))
    ELSE <<acc, i>>

RECURSIVE ScanRelease(_, _, _)
ScanRelease(s, i, rel) ==
    IF i > Len(s) \/ s[i] \notin Digit
    THEN [ok |-> FALSE, release |-> rel, next |-> i]
    ELSE LET r == ScanDigits(s, i, 0)
             j == r[2]
         IN  IF j + 1 <= Len(s) /\ s[j] = "." /\ s[j + 1] \in Digit
             THEN ScanRelease(s, j + 1, Append(rel, r[1]))
             ELSE [ok |-> TRUE, release |-> Append(rel, r[1]), next |-> j]

\* The pre-release at s[i..]: <<rank, number>>, rank 0 (a), 1 (b), 2 (c, rc),
\* 3 (none); <<-1, 0>> when s[i..] is no pre-release.
ScanPre(s, i) ==
    IF i > Len(s) THEN <<3, 0>>
    ELSE LET rank == CASE s[i] = "a" -> 0
                       [] s[i] = "b" -> 1
                       [] s[i] = "c" -> 2
                       [] s[i] = "r" /\ i + 1 <= Len(s) /\ s[i + 1] = "c" -> 2
                       [] OTHER -> -1
             from == IF s[i] = "r" THEN i + 2 ELSE i + 1
             r    == ScanDigits(s, from, 0)
         IN  IF rank >= 0 /\ r[2] > Len(s) THEN <<rank, r[1]>> ELSE <<-1, 0>>

RECURSIVE StripZeros(_)
StripZeros(rel) ==
    IF rel # <<>> /\ rel[Len(rel)] = 0
    THEN StripZeros(SubSeq(rel, 1, Len(rel) - 1))
    ELSE rel

\* The code point order of the characters a legacy version is compared by.
Ord(c) ==
    CASE c = "." -> 46
      [] c \in Digit -> 48 + DigitVal(c)
      [] c = "a" -> 97 [] c = "b" -> 98 [] c = "c" -> 99 [] c = "r" -> 114
      [] c = "x" -> 120
      [] OTHER -> 128

parse_version(s) ==
    LET rel == ScanRelease(s, 1, <<>>)
        pre == ScanPre(s, rel.next)
    IN  IF rel.ok /\ pre[1] >= 0
        THEN [epoch |-> 0, release |-> StripZeros(rel.release), pre |-> pre]
        ELSE [epoch |-> -1, release |-> [i \in 1..Len(s) |-> Ord(s[i])],
              pre |-> <<3, 0>>]

\* Python's tuple order on sequences of integers.
RECURSIVE SeqLess(_, _)
SeqLess(a, b) ==
    IF b = <<>> THEN FALSE
    ELSE IF a = <<>> THEN TRUE
    ELSE IF a[1] # b[1] THEN a[1] < b[1]
    ELSE SeqLess(Tail(a), Tail(b))

KeyLess(k1, k2) ==
    IF k1.epoch # k2.epoch THEN k1.epoch < k2.epoch
    ELSE IF k1.release # k2.release THEN SeqLess(k1.release, k2.release)
    ELSE SeqLess(k1.pre, k2.pre)

\* max(versions, key=...): the first element whose key no element exceeds.
RECURSIVE MaxFrom(_, _, _)
MaxFrom(versions, i, best) ==
    IF i > Len(versions) THEN best
    ELSE MaxFrom(versions, i + 1,
                 IF KeyLess(parse_version(best), parse_version(versions[i]))
                 THEN versions[i] ELSE best)

highest_version(versions) == MaxFrom(versions, 2, versions[1])

(***************************************************************************)
(* State.                                                                  *)
(*   pc            where the operation under way stands                    *)
(* transform_hits                                                          *)
(*   hits          the hits the loop has consumed so far, in input order   *)
(*   packages      the dict `packages`: its records in insertion order     *)
(*   package_list  the list returned                                       *)
(* print_results                                                           *)
(*   records, name_column_width, terminal_width   its arguments            *)
(*   column_width  name_column_width once its default is computed          *)
(*   installed     pkg_resources.working_set: the installed version of     *)
(*                 a project name, or None                                 *)
(*   ascii_sink    whether the log's stream encodes ASCII only             *)
(*   idx           the number of records the loop has rendered             *)
(*   out           the lines emitted so far                                *)
(* SearchCommand.run                                                       *)
(*   args, files   the query arguments and options.files                   *)
(*   pos           the number of requirement entries consumed              *)
(*   pypi_hits     the hits collected                                      *)
(*   calls         the remote calls issued so far                          *)
(*   outcome       how run ended                                           *)
(***************************************************************************)
VARIABLES pc, hits, packages, package_list,
          records, name_column_width, terminal_width, installed, ascii_sink,
          column_width, idx, out,
          args, files, pos, pypi_hits, calls, outcome

tvars == <<hits, packages, package_list>>

pvars == <<records, name_column_width, terminal_width, installed, ascii_sink,
           column_width, idx, out>>

rvars == <<args, files, pos, pypi_hits, calls, outcome>>

vars == <<pc, tvars, pvars, rvars>>

(***************************************************************************)
(* The hits a remote index returns.  The index holds two projects; the     *)
(* summary of a release is "s" followed by its version.                    *)
(***************************************************************************)
Foo == <<"f", "o", "o">>

Bar == <<"b">>

Names == {Foo, Bar}

V9 == <<"9">>

V10 == <<"1", "0">>

V1_0 == <<"1", ".", "0">>

V1_0_0 == <<"1", ".", "0", ".", "0">>

V1_0a1 == <<"1", ".", "0", "a", "1">>

VLegacy == <<"x">>

Versions == {V9, V10, V1_0, V1_0_0, V1_0a1}

Orderings == {None, Some(1), Some(2)}

SummaryOf(version) == Some(<<"s">> \o version)

Hit(name, version, ordering) ==
    [name |-> name, summary |-> SummaryOf(version), version |-> version,
     ordering |-> ordering]

HitUniverse ==
    {Hit(n, v, o) : n \in Names, v \in Versions, o \in Orderings}

(***************************************************************************)
(* transform_hits                                                          *)
(***************************************************************************)
\* score = hit['_pypi_ordering']; if score is None: score = 0
ScoreOf(hit) == IF IsNone(hit.ordering) THEN 0 ELSE Val(hit.ordering)

Keys(pkgs) == {pkgs[i].name : i \in 1..Len(pkgs)}

NewRecord(hit) ==
    [name |-> hit.name, summary |-> hit.summary,
     versions |-> <<hit.version>>, score |-> ScoreOf(hit)]

\* UpdateRecord with the highest-version test left out.
UpdateRecordAlways(rec, hit) ==
    [rec EXCEPT !.versions = Append(rec.versions, hit.version),
                !.summary = hit.summary, !.score = ScoreOf(hit)]

\* packages[name]['versions'].append(version), then the replacement of
\* summary and score when the version is the highest of the list.
UpdateRecord(rec, hit) ==
    LET versions == Append(rec.versions, hit.version)
    IN  IF hit.version = highest_version(versions)
        THEN [rec EXCEPT !.versions = versions, !.summary = hit.summary,
                         !.score = ScoreOf(hit)]
        ELSE [rec EXCEPT !.versions = versions]

\* FoldStep with the membership test left out.
FoldStepNoLookup(pkgs, hit) == Append(pkgs, NewRecord(hit))

\* One iteration of `for hit in hits`.
FoldStep(pkgs, hit) ==
    IF hit.name \notin Keys(pkgs)
    THEN Append(pkgs, NewRecord(hit))
    ELSE [i \in 1..Len(pkgs) |->
             IF pkgs[i].name = hit.name THEN UpdateRecord(pkgs[i], hit)
             ELSE pkgs[i]]

\* sorted(values, key=score, reverse=True) is stable: a record goes behind
\* every record of a score at least its own.
RECURSIVE InsertByScore(_, _)
InsertByScore(sorted, rec) ==
    IF sorted = <<>> THEN <<rec>>
    ELSE IF sorted[1].score >= rec.score
    THEN <<sorted[1]>> \o InsertByScore(Tail(sorted), rec)
    ELSE <<rec>> \o sorted

RECURSIVE SortFrom(_, _, _)
SortFrom(values, i, sorted) ==
    IF i > Len(values) THEN sorted
    ELSE SortFrom(values, i + 1, InsertByScore(sorted, values[i]))

\* An ascending stable sort read backwards: descending, ties reversed.
RECURSIVE InsertAscending(_, _)
InsertAscending(sorted, rec) ==
    IF sorted = <<>> THEN <<rec>>
    ELSE IF sorted[1].score <= rec.score
    THEN <<sorted[1]>> \o InsertAscending(Tail(sorted), rec)
    ELSE <<rec>> \o sorted

RECURSIVE SortAscendingFrom(_, _, _)
SortAscendingFrom(values, i, sorted) ==
    IF i > Len(values) THEN sorted
    ELSE SortAscendingFrom(values, i + 1, InsertAscending(sorted, values[i]))

sorted_then_reversed(values) ==
    LET asc == SortAscendingFrom(values, 1, <<>>)
    IN  [i \in 1..Len(asc) |-> asc[Len(asc) + 1 - i]]

sorted_by_score(values) == SortFrom(values, 1, <<>>)

RECURSIVE FoldAll(_, _, _)
FoldAll(hs, i, pkgs) ==
    IF i > Len(hs) THEN pkgs ELSE FoldAll(hs, i + 1, FoldStep(pkgs, hs[i]))

transform_hits(hs) == sorted_by_score(FoldAll(hs, 1, <<>>))

InitRest(p, t, r) ==
    /\ (p => /\ records = <<>> /\ name_column_width = None
             /\ terminal_width = None /\ installed = None
             /\ ascii_sink = FALSE /\ column_width = None /\ idx = 0
             /\ out = <<>>)
    /\ (t => hits = <<>> /\ packages = <<>> /\ package_list = <<>>)
    /\ (r => /\ args = <<>> /\ files = <<>> /\ pos = 0 /\ pypi_hits = <<>>
             /\ calls = <<>> /\ outcome = None)

TInit == pc = "fold" /\ hits = <<>> /\ packages = <<>> /\ package_list = <<>>
         /\ InitRest(TRUE, FALSE, TRUE)

FoldHit ==
    /\ pc = "fold"
    /\ Len(hits) < MaxHits
    /\ \E hit \in HitUniverse :
          /\ hits' = Append(hits, hit)
          /\ packages' = FoldStep(packages, hit)
    /\ UNCHANGED <<pc, package_list, pvars, rvars>>

SortPackages ==
    /\ pc = "fold"
    /\ package_list' = sorted_by_score(packages)
    /\ pc' = "returned"
    /\ UNCHANGED <<hits, packages, pvars, rvars>>

TNext == FoldHit \/ SortPackages

SpecTransform == TInit /\ [][TNext]_vars

(***************************************************************************)
(* textwrap.wrap(text, width) with its defaults, for a text of words       *)
(* separated by spaces (no tabs, newlines or hyphens): the chunks are the  *)
(* words and the runs of spaces; a line takes chunks while they fit, a     *)
(* word longer than the width is broken, and the spaces at the start of a  *)
(* continuation line and at the end of every line are dropped.             *)
(***************************************************************************)
IsBlank(chunk) == \A i \in 1..Len(chunk) : chunk[i] = " "

RECURSIVE Chunks(_, _, _)
Chunks(s, i, acc) ==
    IF i > Len(s) THEN acc
    ELSE IF acc # <<>> /\ (acc[Len(acc)][1] = " ") = (s[i] = " ")
    THEN Chunks(s, i + 1, [acc EXCEPT ![Len(acc)] = Append(@, s[i])])
    ELSE Chunks(s, i + 1, Append(acc, <<s[i]>>))

RECURSIVE Concat(_)
Concat(parts) == IF parts = <<>> THEN <<>> ELSE parts[1] \o Concat(Tail(parts))

RECURSIVE TakeFitting(_, _, _, _)
TakeFitting(chunks, width, line, len) ==
    IF chunks # <<>> /\ len + Len(chunks[1]) <= width
    THEN TakeFitting(Tail(chunks), width, Append(line, chunks[1]),
                     len + Len(chunks[1]))
    ELSE [line |-> line, len |-> len, rest |-> chunks]

RECURSIVE WrapChunks(_, _, _)
WrapChunks(chunks, width, lines) ==
    IF chunks = <<>> THEN lines
    ELSE LET start == IF lines # <<>> /\ IsBlank(chunks[1])
                      THEN Tail(chunks) ELSE chunks
             fit   == TakeFitting(start, width, <<>>, 0)
             long  == fit.rest # <<>> /\ Len(fit.rest[1]) > width
             left  == IF width < 1 THEN 1 ELSE width - fit.len
             line  == IF long
                      THEN Append(fit.line, SubSeq(fit.rest[1], 1, left))
                      ELSE fit.line
             rest  == IF long
                      THEN <<SubSeq(fit.rest[1], left + 1, Len(fit.rest[1]))>>
                              \o Tail(fit.rest)
                      ELSE fit.rest
             kept  == IF line # <<>> /\ IsBlank(line[Len(line)])
                      THEN SubSeq(line, 1, Len(line) - 1) ELSE line
         IN  WrapChunks(rest, width,
                        IF kept # <<>> THEN Append(lines, Concat(kept))
                        ELSE lines)

wrap(text, width) == WrapChunks(Chunks(text, 1, <<>>), width, <<>>)

(***************************************************************************)
(* print_results                                                           *)
(***************************************************************************)
Dash == <<"-">>

StrSep == <<" ", "-", " ">>

StrInstalled == <<"I", "N", "S", "T", "A", "L", "L", "E", "D", ":", " ">>

StrIsLatest == <<" ", "(", "l", "a", "t", "e", "s", "t", ")">>

StrLatest == <<"L", "A", "T", "E", "S", "T", ":", " ", " ", " ", " ">>

StrShortSummary == <<"a", " ", "s", "h", "o", "r", "t", " ", "s", "u", "m", "m", "a", "r", "y">>

StrCafe == <<"c", "a", "f", "U+00E9">>

IntMax(set) == CHOOSE m \in set : \A n \in set : n <= m

\* hit.get('versions', ['-'])[-1], with the last version replaced by the
\* highest one.
HighestShownVersion(hit) ==
    IF "versions" \in DOMAIN hit THEN highest_version(hit.versions) ELSE Dash

\* hit.get('versions', ['-'])[-1]
ShownVersion(hit) ==
    LET versions == IF "versions" \in DOMAIN hit THEN hit.versions
                    ELSE <<Dash>>
    IN  versions[Len(versions)]

\* DefaultNameColumnWidth with a padding of 5.
WiderNameColumnWidth(hs) ==
    IntMax({Len(hs[i].name) + Len(ShownVersion(hs[i])) : i \in 1..Len(hs)})
       + 5

\* max([len(hit['name']) + len(hit.get('versions', ['-'])[-1]) ...]) + 4
DefaultNameColumnWidth(hs) ==
    IntMax({Len(hs[i].name) + Len(ShownVersion(hs[i])) : i \in 1..Len(hs)})
       + 4

\* hit['summary'] or ''
SummaryText(hit) == IF IsNone(hit.summary) THEN <<>> ELSE Val(hit.summary)

\* ShouldWrap with the test `target_width >= 10`.
ShouldWrapFromTen(tw, ncw) == ~IsNone(tw) /\ Val(tw) - ncw - 5 >= 10

\* terminal_width is not None and target_width > 10
ShouldWrap(tw, ncw) == ~IsNone(tw) /\ Val(tw) - ncw - 5 > 10

RenderedSummary(hit, ncw, tw) ==
    IF ShouldWrap(tw, ncw)
    THEN Join(<<"\n">> \o Spaces(ncw + 3),
              wrap(SummaryText(hit), Val(tw) - ncw - 5))
    ELSE SummaryText(hit)

\* '%s (%s)' % (name, version)
Label(hit) == hit.name \o <<" ", "(">> \o ShownVersion(hit) \o <<")">>

\* '%-*s - %s' % (name_column_width, label, summary)
Headline(hit, ncw, tw) ==
    [indent |-> 0,
     text |-> LJust(Label(hit), ncw) \o StrSep \o RenderedSummary(hit, ncw, tw)]

\* Annotations with the two lines of the second branch exchanged.
AnnotationsLatestFirst(hit, version) ==
    LET latest == highest_version(hit.versions)
    IN  IF version = latest
        THEN <<[indent |-> 1, text |-> StrInstalled \o version \o StrIsLatest]>>
        ELSE <<[indent |-> 1, text |-> StrLatest \o latest],
               [indent |-> 1, text |-> StrInstalled \o version]>>

\* The lines logged under indent_log() for an installed distribution of
\* version `version`.
Annotations(hit, version) ==
    LET latest == highest_version(hit.versions)
    IN  IF version = latest
        THEN <<[indent |-> 1, text |-> StrInstalled \o version \o StrIsLatest]>>
        ELSE <<[indent |-> 1, text |-> StrInstalled \o version],
               [indent |-> 1, text |-> StrLatest \o latest]>>

\* Whether the stream can encode the line.
Encodable(line, ascii) ==
    ~ascii \/ \A i \in 1..Len(line.text) : line.text[i] \notin NonAscii

\* logger.info on each line in turn: the first line the stream cannot
\* encode raises UnicodeEncodeError and the lines behind it are not reached.
RECURSIVE EmitSeq(_, _, _)
EmitSeq(lines, ascii, emitted) ==
    IF lines = <<>> THEN [emitted |-> emitted, raised |-> "none"]
    ELSE IF ~Encodable(lines[1], ascii)
    THEN [emitted |-> emitted, raised |-> "UnicodeEncodeError"]
    ELSE EmitSeq(Tail(lines), ascii, Append(emitted, lines[1]))

\* The body of the try statement.
TryBlock(hit, ncw, tw, inst, ascii) ==
    LET head == EmitSeq(<<Headline(hit, ncw, tw)>>, ascii, <<>>)
    IN  IF head.raised # "none" \/ hit.name \notin DOMAIN inst THEN head
        ELSE IF "versions" \notin DOMAIN hit
        THEN [emitted |-> head.emitted, raised |-> "KeyError"]
        ELSE EmitSeq(Annotations(hit, inst[hit.name]), ascii, head.emitted)

\* One iteration of `for hit in hits` with no except clause.
RenderHitUncaught(hit, ncw, tw, inst, ascii) ==
    TryBlock(hit, ncw, tw, inst, ascii)

\* One iteration of `for hit in hits`: the try statement, whose except
\* clause swallows UnicodeEncodeError and nothing else.
RenderHit(hit, ncw, tw, inst, ascii) ==
    LET try == TryBlock(hit, ncw, tw, inst, ascii)
    IN  IF try.raised = "UnicodeEncodeError"
        THEN [emitted |-> try.emitted, raised |-> "none"]
        ELSE try

\* The records print_results is called with.
Summaries == {None, Some(StrShortSummary), Some(StrCafe)}

VersionLists == {<<V1_0>>, <<V10, V9>>}

RecordUniverse ==
    {[name |-> n, summary |-> s, versions |-> vs, score |-> 5] :
        n \in Names, s \in Summaries, vs \in VersionLists}
    \cup {[name |-> n, summary |-> s, score |-> 5] :
             n \in Names, s \in Summaries}

SeqsUpTo(set, n) == UNION {[1..k -> set] : k \in 0..n}

ColumnWidthArgs == {None, Some(12)}

TerminalWidths == {None, Some(25), Some(26)}

InstalledSets == {<<>>} \cup {[n \in {Foo} |-> v] : v \in {V10, V1_0}}

PInit ==
    /\ pc = "call"
    /\ records \in SeqsUpTo(RecordUniverse, MaxRecords)
    /\ name_column_width \in ColumnWidthArgs
    /\ terminal_width \in TerminalWidths
    /\ installed \in InstalledSets
    /\ ascii_sink \in BOOLEAN
    /\ column_width = None
    /\ idx = 0
    /\ out = <<>>
    /\ InitRest(FALSE, TRUE, TRUE)

\* if not hits: return; the default of name_column_width.
PrintStart ==
    /\ pc = "call"
    /\ IF records = <<>>
       THEN pc' = "done" /\ UNCHANGED column_width
       ELSE /\ pc' = "loop"
            /\ column_width' =
                  IF IsNone(name_column_width)
                  THEN Some(DefaultNameColumnWidth(records))
                  ELSE name_column_width
    /\ UNCHANGED <<records, name_column_width, terminal_width, installed,
                   ascii_sink, idx, out, tvars, rvars>>

Tagged(lines, i) ==
    [k \in 1..Len(lines) |->
        [rec |-> i, indent |-> lines[k].indent, text |-> lines[k].text]]

\* One iteration of the loop over the records; an exception the iteration
\* does not swallow ends print_results.
PrintHit ==
    /\ pc = "loop"
    /\ LET r == RenderHit(records[idx + 1], Val(column_width),
                          terminal_width, installed, ascii_sink)
       IN  /\ out' = out \o Tagged(r.emitted, idx + 1)
           /\ idx' = idx + 1
           /\ pc' = IF r.raised # "none" THEN r.raised
                    ELSE IF idx + 1 = Len(records) THEN "done" ELSE "loop"
    /\ UNCHANGED <<records, name_column_width, terminal_width, installed,
                   ascii_sink, column_width, tvars, rvars>>

PNext == PrintStart \/ PrintHit

SpecPrint == PInit /\ [][PNext]_vars

(***************************************************************************)
(* SearchCommand.run, search and search_from_files.                        *)
(*                                                                         *)
(* A requirement file is the sequence of entries parse_requirements yields *)
(* for it; an entry is a name and list(req.specifier), the clauses         *)
(* (operator, version) of its specifier in the order the set yields them.  *)
(* The remote index knows the releases 10, 9 and 1.0 of "foo" and no       *)
(* release of "b".                                                         *)
(***************************************************************************)
Clause(op, version) == [op |-> op, version |-> version]

Specifiers ==
    {<<>>,
     <<Clause("==", V1_0)>>,
     <<Clause(">=", V1_0)>>,
     <<Clause("==", V10), Clause(">=", V9)>>,
     <<Clause(">=", V9), Clause("==", V10)>>}

ReqUniverse ==
    {[name |-> Foo, specifier |-> sp] : sp \in Specifiers}
    \cup {[name |-> Bar, specifier |-> sp] :
             sp \in {<<>>, <<Clause("==", V1_0)>>}}

\* options.files: no file, one file or two, of MaxReqs entries in all.
FileLists ==
    {<<>>}
    \cup {<<f>> : f \in SeqsUpTo(ReqUniverse, MaxReqs)}
    \cup UNION {{<<f, g>> : g \in SeqsUpTo(ReqUniverse, MaxReqs - Len(f))} :
                   f \in SeqsUpTo(ReqUniverse, MaxReqs)}

ArgLists == {<<>>, <<"query">>}

\* pypi.package_releases(name): the releases, the latest first.
PackageReleases(name) == IF name = Foo THEN <<V10, V9, V1_0>> ELSE <<>>

\* pypi.release_data(name, version): the release's record, or an empty dict
\* (here None) for a release the index does not know.
ReleaseData(name, version) ==
    IF \E k \in 1..Len(PackageReleases(name)) :
          PackageReleases(name)[k] = version
    THEN Some(Hit(name, version, Some(1)))
    ELSE None

\* pypi.search(...): what the index may answer.
SearchResults ==
    {<<>>,
     <<Hit(Foo, V1_0, Some(1))>>,
     <<Hit(Foo, V9, None), Hit(Bar, V1_0, Some(2)), Hit(Foo, V10, Some(1))>>,
     <<Hit(Bar, VLegacy, None), Hit(Bar, V1_0a1, Some(2))>>}

Call(method, req, name, version) ==
    [method |-> method, req |-> req, name |-> name, version |-> version]

RInit ==
    /\ pc = "run"
    /\ args \in ArgLists
    /\ files \in FileLists
    /\ pos = 0
    /\ pypi_hits = <<>>
    /\ calls = <<>>
    /\ outcome = None
    /\ InitRest(TRUE, TRUE, FALSE)

\* run up to the choice of the lookup.
RunStart ==
    /\ pc = "run"
    /\ IF args = <<>> /\ files = <<>>
       THEN pc' = "raised" /\ outcome' = Some("CommandError")
       ELSE /\ pc' = IF files # <<>> THEN "search_from_files" ELSE "search"
            /\ UNCHANGED outcome
    /\ UNCHANGED <<args, files, pos, pypi_hits, calls, tvars, pvars>>

\* search: one remote query.
Search ==
    /\ pc = "search"
    /\ \E result \in SearchResults :
          /\ pypi_hits' = result
          /\ calls' = Append(calls, Call("search", 0, <<>>, None))
    /\ pc' = "lookup_done"
    /\ UNCHANGED <<args, files, pos, outcome, tvars, pvars>>

\* search_from_files: one iteration of the loop over the entries.
FileReq ==
    /\ pc = "search_from_files"
    /\ pos < Len(Concat(files))
    /\ LET req      == Concat(files)[pos + 1]
           pinned   == req.specifier # <<>>
           releases == PackageReleases(req.name)
           asked    == IF pinned THEN calls
                       ELSE Append(calls, Call("package_releases", pos + 1,
                                               req.name, None))
       IN  IF ~pinned /\ releases = <<>>
           THEN /\ calls' = asked
                /\ pc' = "raised"
                /\ outcome' = Some("IndexError")
                /\ UNCHANGED <<pos, pypi_hits>>
           ELSE LET version == IF pinned THEN req.specifier[1].version
                               ELSE releases[1]
                    result  == ReleaseData(req.name, version)
                IN  /\ calls' = Append(asked, Call("release_data", pos + 1,
                                                   req.name, Some(version)))
                    /\ pypi_hits' = IF IsNone(result) THEN pypi_hits
                                    ELSE Append(pypi_hits, Val(result))
                    /\ pos' = pos + 1
                    /\ UNCHANGED <<pc, outcome>>
    /\ UNCHANGED <<args, files, tvars, pvars>>

\* search_from_files: return hits.
FilesReturn ==
    /\ pc = "search_from_files"
    /\ pos = Len(Concat(files))
    /\ pc' = "lookup_done"
    /\ UNCHANGED <<args, files, pos, pypi_hits, calls, outcome, tvars, pvars>>

\* run: hits = transform_hits(pypi_hits), the terminal width, and the call
\* of print_results(hits, terminal_width=terminal_width); the installed
\* distributions and the stream are what print_results will find.
RunTransform ==
    /\ pc = "lookup_done"
    /\ package_list' = transform_hits(pypi_hits)
    /\ records' = package_list'
    /\ name_column_width' = None
    /\ terminal_width' \in {None, Some(26)}
    /\ installed' \in InstalledSets
    /\ ascii_sink' \in BOOLEAN
    /\ pc' = "call"
    /\ UNCHANGED <<hits, packages, column_width, idx, out, rvars>>

\* run: the return that follows print_results.
RunReturn ==
    /\ pc = "done"
    /\ outcome' = IF pypi_hits # <<>> THEN Some("SUCCESS")
                  ELSE Some("NO_MATCHES_FOUND")
    /\ pc' = "returned"
    /\ UNCHANGED <<args, files, pos, pypi_hits, calls, tvars, pvars>>

RNext ==
    \/ RunStart \/ Search \/ FileReq \/ FilesReturn \/ RunTransform
    \/ PrintStart \/ PrintHit \/ RunReturn

SpecRun == RInit /\ [][RNext]_vars

(***************************************************************************)
(* Properties of transform_hits.                                           *)
(***************************************************************************)
HitsOf(name) == {k \in 1..Len(hits) : hits[k].name = name}

FirstSeen(name) == CHOOSE k \in HitsOf(name) : \A l \in HitsOf(name) : k <= l

Elems(seq) == {seq[i] : i \in 1..Len(seq)}

\* C1: the list transform_hits returns holds no two records of one name,
\* one record for each name of the input, and in each record exactly the
\* versions (as a set) of the input hits of that name.
C1_OneRecordPerName ==
    pc = "returned" =>
        /\ \A i, j \in 1..Len(package_list) :
              package_list[i].name = package_list[j].name => i = j
        /\ {package_list[i].name : i \in 1..Len(package_list)}
              = {hits[k].name : k \in 1..Len(hits)}
        /\ \A i \in 1..Len(package_list) :
              Elems(package_list[i].versions)
                 = {hits[k].version : k \in HitsOf(package_list[i].name)}

C1_Witness ==
    /\ pc = "returned"
    /\ Len(package_list) = 2
    /\ \E i \in 1..2 : Cardinality(Elems(package_list[i].versions)) = 2

VersionsUpTo(name, k) ==
    LET of == SelectSeq([n \in 1..k |-> hits[n]], LAMBDA h : h.name = name)
    IN  [n \in 1..Len(of) |-> of[n].version]

\* Hit k was of the highest version of its name when it was folded in.
WasHighest(k) ==
    hits[k].version = highest_version(VersionsUpTo(hits[k].name, k))

\* C3: after every prefix of the hits, each record's summary and score are
\* those of a hit of its name whose version is highest_version of the
\* record's versions so far, namely of the last hit that was of the highest
\* version when it was folded in: a hit of a lower version leaves them
\* alone, and a hit whose version is the new highest replaces them.
C3_SummaryScoreOfHighest ==
    \A i \in 1..Len(packages) :
        LET mine == HitsOf(packages[i].name)
            tops == {k \in mine : WasHighest(k)}
            last == CHOOSE k \in tops : \A l \in tops : l <= k
        IN  /\ packages[i].versions = VersionsUpTo(packages[i].name, Len(hits))
            /\ hits[last].version = highest_version(packages[i].versions)
            /\ packages[i].summary = hits[last].summary
            /\ packages[i].score = ScoreOf(hits[last])

\* A second hit raised the record's highest version and a third, lower one
\* followed.
C3_Witness ==
    \E i \in 1..Len(packages) :
        /\ Len(packages[i].versions) = 3
        /\ highest_version(packages[i].versions) = packages[i].versions[2]
        /\ KeyLess(parse_version(packages[i].versions[3]),
                   parse_version(packages[i].versions[2]))
        /\ KeyLess(parse_version(packages[i].versions[1]),
                   parse_version(packages[i].versions[2]))

(***************************************************************************)
(* Properties of print_results.                                            *)
(***************************************************************************)
Untagged(lines) ==
    [k \in 1..Len(lines) |->
        [indent |-> lines[k].indent, text |-> lines[k].text]]

\* The lines record i has emitted, in the order of their emission.
LinesOf(i) == Untagged(SelectSeq(out, LAMBDA e : e.rec = i))

\* The lines the try statement of record i logs when every line encodes.
Intended(i) ==
    TryBlock(records[i], Val(column_width), terminal_width, installed,
             FALSE).emitted

CanEncode(line) ==
    ~ascii_sink \/ \A k \in 1..Len(line.text) : line.text[k] \notin NonAscii

RECURSIVE EncodablePrefix(_)
EncodablePrefix(lines) ==
    IF lines = <<>> \/ ~CanEncode(lines[1]) THEN <<>>
    ELSE <<lines[1]>> \o EncodablePrefix(Tail(lines))

InRecordOrder == \A k, l \in 1..Len(out) : k < l => out[k].rec <= out[l].rec

\* C6 as stated: an encoding failure costs the failing line alone, every
\* other line of the record being emitted, and never leaves print_results.
C6_OnlyFailingLineDropped ==
    /\ pc # "UnicodeEncodeError"
    /\ pc = "done" => idx = Len(records)
    /\ InRecordOrder
    /\ \A i \in 1..idx : LinesOf(i) = SelectSeq(Intended(i), CanEncode)

\* C6 as amended: an encoding failure never leaves print_results; it drops
\* the failing line and the lines of the same record behind it, and the
\* records behind the failing one are rendered in order.
C6_FailureDropsRestOfRecord ==
    /\ pc # "UnicodeEncodeError"
    /\ pc = "done" => idx = Len(records)
    /\ InRecordOrder
    /\ \A i \in 1..idx : LinesOf(i) = EncodablePrefix(Intended(i))

\* The headline of an installed first record failed to encode, and the
\* second record was rendered.
C6_Witness ==
    /\ pc = "done"
    /\ ascii_sink
    /\ Len(records) = 2
    /\ records[1].summary = Some(StrCafe)
    /\ records[1].name \in DOMAIN installed
    /\ "versions" \in DOMAIN records[1]
    /\ LinesOf(1) = <<>>
    /\ Len(LinesOf(2)) = 2

C8_Case ==
    /\ pc = "done"
    /\ records = <<[name |-> Foo, summary |-> Some(StrShortSummary),
                    versions |-> <<V1_0>>, score |-> 5]>>
    /\ terminal_width = None
    /\ name_column_width = None
    /\ Foo \notin DOMAIN installed

\* C8 as stated: the one line emitted is "foo (1.0)   - a short summary".
C8_ThreeSpaces ==
    C8_Case =>
       Untagged(out) = <<[indent |-> 0,
                          text |-> <<"f", "o", "o", " ", "(", "1", ".", "0", ")", " ", " ", " ", "-", " ", "a", " ", "s", "h", "o", "r", "t", " ", "s", "u", "m", "m", "a", "r", "y">>]>>

\* C8 as amended: the one line emitted is "foo (1.0)  - a short summary",
\* the label "foo (1.0)" padded to the column width 3 + 3 + 4 = 10 and
\* followed by " - ": two spaces stand between ")" and "-".
C8_TwoSpaces ==
    C8_Case =>
       Untagged(out) = <<[indent |-> 0,
                          text |-> <<"f", "o", "o", " ", "(", "1", ".", "0", ")", " ", " ", "-", " ", "a", " ", "s", "h", "o", "r", "t", " ", "s", "u", "m", "m", "a", "r", "y">>]>>

C8_Witness == C8_Case /\ Len(out) = 1

LastOrDash(hit) ==
    IF "versions" \in DOMAIN hit THEN hit.versions[Len(hit.versions)]
    ELSE <<"-">>

IsPrefix(p, s) == Len(p) <= Len(s) /\ SubSeq(s, 1, Len(p)) = p

\* C9: the version in the headline label, and the version whose length
\* enters the default column width, is the last element of the record's
\* versions, or "-" for a record with no versions.
C9_LastVersionShown ==
    /\ \A i \in 1..idx :
          LinesOf(i) # <<>> =>
             IsPrefix(records[i].name \o <<" ", "(">> \o LastOrDash(records[i])
                         \o <<")">>,
                      LinesOf(i)[1].text)
    /\ (pc # "call" /\ records # <<>> /\ name_column_width = None) =>
          /\ \A i \in 1..Len(records) :
                Val(column_width)
                   >= Len(records[i].name) + Len(LastOrDash(records[i])) + 4
          /\ \E i \in 1..Len(records) :
                Val(column_width)
                   = Len(records[i].name) + Len(LastOrDash(records[i])) + 4

\* A record whose last version is shorter than its highest one, and a
\* record with no versions, have emitted their headlines under the default
\* column width.
C9_Witness ==
    /\ pc = "done"
    /\ name_column_width = None
    /\ Len(records) = 2
    /\ "versions" \in DOMAIN records[1]
    /\ records[1].versions = <<V10, V9>>
    /\ "versions" \notin DOMAIN records[2]
    /\ LinesOf(1) # <<>>
    /\ LinesOf(2) # <<>>

\* The part of record i's headline behind the padded label and " - ".
SummaryShown(i) ==
    LET text == LinesOf(i)[1].text
        from == Len(LJust(records[i].name \o <<" ", "(">>
                             \o LastOrDash(records[i]) \o <<")">>,
                          Val(column_width))) + 3
    IN  SubSeq(text, from + 1, Len(text))

\* C10: the summary is word-wrapped exactly when a terminal width is known
\* and terminal_width - name_column_width - 5 > 10: otherwise it is shown
\* as it is, in one segment, and when wrapped its lines (none longer than
\* the target width) are joined by a newline and name_column_width + 3
\* spaces.
C10_WrapOnlyWhenRoom ==
    \A i \in 1..idx :
        LinesOf(i) # <<>> =>
           LET summary == IF records[i].summary = <<>> THEN <<>>
                          ELSE records[i].summary[1]
               width   == Val(column_width)
           IN  IF terminal_width # <<>> /\ terminal_width[1] - width - 5 > 10
               THEN LET lines == wrap(summary, terminal_width[1] - width - 5)
                    IN  /\ \A k \in 1..Len(lines) :
                              Len(lines[k]) <= terminal_width[1] - width - 5
                        /\ SummaryShown(i)
                              = Join(<<"\n">> \o [k \in 1..width + 3 |-> " "],
                                     lines)
               ELSE SummaryShown(i) = summary

\* A summary was wrapped onto two lines.
C10_Witness ==
    \E i \in 1..idx :
        /\ LinesOf(i) # <<>>
        /\ records[i].summary = Some(StrShortSummary)
        /\ terminal_width = Some(26)
        /\ column_width = Some(10)
        /\ \E k \in 1..Len(LinesOf(i)[1].text) : LinesOf(i)[1].text[k] = "\n"

(***************************************************************************)
(* Properties of SearchCommand.run.                                        *)
(***************************************************************************)
\* C4: run ends in one of three ways: with CommandError, before any remote
\* call and any output, when neither arguments nor files are given; and
\* otherwise by returning SUCCESS if the lookup yielded a hit and
\* NO_MATCHES_FOUND if it yielded none.
C4_ThreeOutcomes ==
    /\ pc = "raised" => outcome = Some("CommandError")
    /\ outcome = Some("CommandError")
          => args = <<>> /\ files = <<>> /\ calls = <<>> /\ out = <<>>
    /\ pc = "returned"
          => /\ ~(args = <<>> /\ files = <<>>)
             /\ outcome = IF pypi_hits # <<>> THEN Some("SUCCESS")
                          ELSE Some("NO_MATCHES_FOUND")

CallsOf(k, method) ==
    SelectSeq(calls, LAMBDA c : c.req = k /\ c.method = method)

Pins(req) == {c \in Elems(req.specifier) : c.op = "=="}

\* C5: an entry whose specifier pins an exact version is looked up with
\* that version and without a query of the latest release; for any other
\* entry the latest release is queried and the entry is looked up with it.
\* (Stated of the entries whose iteration of the loop has ended.)
C5_PinnedElseLatest ==
    \A k \in 1..Len(Concat(files)) :
        k <= pos =>
           LET req == Concat(files)[k]
           IN  IF Pins(req) # {}
               THEN /\ CallsOf(k, "package_releases") = <<>>
                    /\ Len(CallsOf(k, "release_data")) = 1
                    /\ \E c \in Pins(req) :
                          CallsOf(k, "release_data")[1].version
                             = Some(c.version)
               ELSE /\ Len(CallsOf(k, "package_releases")) = 1
                    /\ Len(CallsOf(k, "release_data")) = 1
                    /\ CallsOf(k, "release_data")[1].version
                          = Some(PackageReleases(req.name)[1])

====
